---- MODULE Spec2Model ----
(***************************************************************************)
(* The mutating admission webhook of pkg/mutatingwebhook:                  *)
(*   - reconciler.Reconcile keeps the MutatingWebhookConfiguration (the    *)
(*     "Registration") in its desired form, gated by leadership;           *)
(*   - reconciler.Admit rewrites the affinity of an incoming pod and       *)
(*     answers with a JSON patch.                                          *)
(* A Go nil pointer, a nil slice and an absent map key are the empty       *)
(* sequence <<>>; a value that is set is the one-element sequence <<v>>.   *)
(***************************************************************************)
EXTENDS Integers, Sequences, FiniteSets, TLC

VARIABLES
    leader,     \* leader[r]: what ac.IsLeaderFor(ac.key) answers on replica r
    secret,     \* the webhook certificate secret of the system namespace
    nsUID,      \* the uid of the system namespace object
    store,      \* the stored MutatingWebhookConfiguration named ac.key.Name
    pass,       \* pass[r]: the Reconcile call of replica r, in progress or returned
    prev,       \* prev[r]: what the call before pass[r] returned on replica r
    dirty,      \* dirty[r]: the cluster changed under replica r since pass[r] began
    passes,     \* Reconcile calls started so far
    events,     \* external changes so far
    admRequest, \* the admission request at hand: request.Object.Raw and the pod it encodes
    admResult,  \* what Admit made of it: origin, target and the response
    admissions  \* admission requests received so far

recVars == <<leader, secret, nsUID, store, pass, prev, dirty, passes, events>>
admVars == <<admRequest, admResult, admissions>>
vars == <<recVars, admVars>>

----------------------------------------------------------------------------
(* Bounds *)

MaxPasses == 2
MaxEvents == 2
MaxAdmissions == 3

----------------------------------------------------------------------------
(* Values *)

None == <<>>
Some(v) == <<v>>

Replicas == {"r1", "r2"}

\* ac.key.Name, the fixed name of the Registration and of its targeted entry
RegName == "affinity.webhook"
OtherName == "other.webhook"
\* ac.path
WebhookPath == "/mutate"
SystemNamespace == "tekton-pipelines"

\* the map key certresources.CACert of secret.Data
CABytes == {"ca1", "ca2"}
SecretStates ==
    {None} \cup {Some([caCert |-> None])} \cup {Some([caCert |-> Some(b)]) : b \in CABytes}

NamespaceUIDs == {"u1", "u2"}
Namespace(uid) == [name |-> SystemNamespace, uid |-> uid]

\* rules of reconcileMutatingWebhook: creation of pods only
PodCreateRules ==
    << [operations |-> <<"CREATE">>, apiGroups |-> <<"">>,
        apiVersions |-> <<"v1">>, resources |-> <<"pods">>] >>
StaleRules ==
    << [operations |-> <<"CREATE", "UPDATE">>, apiGroups |-> <<"">>,
        apiVersions |-> <<"v1">>, resources |-> <<"pods">>] >>

ExcludeKey == "webhooks.knative.dev/exclude"
ExcludeExpr == [key |-> ExcludeKey, operator |-> "DoesNotExist"]
UserExpr == [key |-> "environment", operator |-> "Exists"]
OtherKnativeExpr == [key |-> "serving.knative.dev/release", operator |-> "Exists"]
ExcludeSelector == [matchLabels |-> {}, matchExpressions |-> <<ExcludeExpr>>]

\* strings.Contains(r.Key, "knative.dev") over the keys in use
IsKnativeKey(k) == k \in {ExcludeKey, "serving.knative.dev/release"}

IfNeededReinvocationPolicy == "IfNeeded"

\* metav1.NewControllerRef(ns, Namespace kind)
NewControllerRef(ns) ==
    [apiVersion |-> "v1", kind |-> "Namespace", name |-> ns.name, uid |-> ns.uid,
     controller |-> TRUE, blockOwnerDeletion |-> TRUE]

----------------------------------------------------------------------------
(* The desired Registration *)

\* a merge that appends the wanted expressions without looking at the current ones
EnsureLabelSelectorRequirementsAppend(current, want) == current \o want

\* webhook.ensureLabelSelectorRequirements: want first, then the current
\* expressions whose key is not a knative.dev key
EnsureLabelSelectorRequirements(current, want) ==
    want \o SelectSeq(current, LAMBDA r : ~IsKnativeKey(r.key))

\* webhook.EnsureLabelSelectorExpressions(current, want)
EnsureLabelSelectorExpressions(current, want) ==
    IF current = None
    THEN Some(want)
    ELSE IF Len(current[1].matchExpressions) = 0
    THEN Some([matchLabels |-> current[1].matchLabels,
               matchExpressions |-> want.matchExpressions])
    ELSE Some([matchLabels |-> current[1].matchLabels,
               matchExpressions |->
                   EnsureLabelSelectorRequirements(current[1].matchExpressions,
                                                   want.matchExpressions)])

\* a loop body that forgets the CA bundle
ReconcileEntryKeepCA(wh, caCert, path) ==
    [wh EXCEPT !.rules = PodCreateRules,
               !.namespaceSelector =
                    EnsureLabelSelectorExpressions(wh.namespaceSelector, ExcludeSelector),
               !.service = IF wh.service = None THEN None
                           ELSE Some([wh.service[1] EXCEPT !.path = Some(path)]),
               !.reinvocationPolicy = Some(IfNeededReinvocationPolicy)]

\* the body of the loop over current.Webhooks for an entry named like the
\* Registration whose ClientConfig.Service is set
ReconcileEntry(wh, caCert, path) ==
    [wh EXCEPT !.rules = PodCreateRules,
               !.namespaceSelector =
                    EnsureLabelSelectorExpressions(wh.namespaceSelector, ExcludeSelector),
               !.caBundle = caCert,
               !.service = IF wh.service = None THEN None
                           ELSE Some([wh.service[1] EXCEPT !.path = Some(path)]),
               !.reinvocationPolicy = Some(IfNeededReinvocationPolicy)]

\* a loop without the nil check on ClientConfig.Service
MissingServiceUnchecked(doc) == FALSE

\* the loop returns "missing service reference" at the first entry named like
\* the Registration that has no service
MissingService(doc) ==
    \E i \in DOMAIN doc.webhooks :
        doc.webhooks[i].name = doc.name /\ doc.webhooks[i].service = None

\* a build that leaves the owner references as they are
BuildCurrentKeepOwners(configuredWebhook, ns, caCert, path) ==
    [configuredWebhook EXCEPT
        !.webhooks = [i \in DOMAIN configuredWebhook.webhooks |->
            IF configuredWebhook.webhooks[i].name = configuredWebhook.name
            THEN ReconcileEntry(configuredWebhook.webhooks[i], caCert, path)
            ELSE configuredWebhook.webhooks[i]]]

\* a build that rewrites every entry, whatever its name
BuildCurrentAllEntries(configuredWebhook, ns, caCert, path) ==
    [configuredWebhook EXCEPT
        !.ownerReferences = <<NewControllerRef(ns)>>,
        !.webhooks = [i \in DOMAIN configuredWebhook.webhooks |->
            ReconcileEntry(configuredWebhook.webhooks[i], caCert, path)]]

\* current, as reconcileMutatingWebhook builds it from configuredWebhook
BuildCurrent(configuredWebhook, ns, caCert, path) ==
    [configuredWebhook EXCEPT
        !.ownerReferences = <<NewControllerRef(ns)>>,
        !.webhooks = [i \in DOMAIN configuredWebhook.webhooks |->
            IF configuredWebhook.webhooks[i].name = configuredWebhook.name
            THEN ReconcileEntry(configuredWebhook.webhooks[i], caCert, path)
            ELSE configuredWebhook.webhooks[i]]]

\* a comparison that always reports a difference
SafeEqualNever(a, b) == FALSE

\* kmp.SafeEqual: deep, order-sensitive equality
SafeEqual(a, b) == a = b

----------------------------------------------------------------------------
(* Registrations the install tooling or an out-of-band edit may leave *)

Service(path) == Some([namespace |-> SystemNamespace, name |-> "webhook", path |-> path])

Entry(name, rules, selector, ca, service, policy) ==
    [name |-> name, rules |-> rules, namespaceSelector |-> selector, caBundle |-> ca,
     service |-> service, reinvocationPolicy |-> policy, failurePolicy |-> "Fail"]

Registration(owners, webhooks) ==
    [name |-> RegName, ownerReferences |-> owners, webhooks |-> webhooks]

FreshEntry == Entry(RegName, None, None, "", Service(None), None)
ConvergedEntry(ca) ==
    Entry(RegName, PodCreateRules, Some(ExcludeSelector), ca, Service(Some(WebhookPath)),
          Some(IfNeededReinvocationPolicy))
OtherEntry ==
    Entry(OtherName, StaleRules,
          Some([matchLabels |-> {}, matchExpressions |-> <<UserExpr>>]),
          "ca0", None, Some("Never"))
Owner == <<NewControllerRef(Namespace("u1"))>>

KnownRegistrations ==
    { Registration(None,
          <<[FreshEntry EXCEPT !.namespaceSelector =
                Some([matchLabels |-> {},
                      matchExpressions |-> <<OtherKnativeExpr, UserExpr>>]),
                               !.rules = StaleRules,
                               !.reinvocationPolicy = Some("Never")]>>),
      Registration(Owner, <<ConvergedEntry("ca1")>>),
      Registration(Owner, <<ConvergedEntry("ca0")>>),
      Registration(Owner,
          <<OtherEntry,
            [ConvergedEntry("ca1") EXCEPT !.namespaceSelector =
                Some([matchLabels |-> {},
                      matchExpressions |-> <<UserExpr, ExcludeExpr>>])]>>),
      Registration(Owner, <<[ConvergedEntry("ca1") EXCEPT !.service = None]>>),
      Registration(None, <<OtherEntry>>) }

StoreStates == {None} \cup {Some(d) : d \in KnownRegistrations}

----------------------------------------------------------------------------
(* Reconcile *)

\* results of Reconcile
Skip == "skip"                               \* controller.NewSkipKey(key)
Ok == "nil"
ErrSecret == "error fetching secret"
ErrMissingCA == "secret is missing ca-cert.pem key"
ErrGetWebhook == "error retrieving webhook"
ErrGetNamespace == "failed to fetch namespace"
ErrMissingService == "missing service reference for webhook"
ErrUpdate == "failed to update webhook"
Running == "running"

IdlePass ==
    [pc |-> "idle", leaderAtCheck |-> FALSE, caCert |-> None, configuredWebhook |-> None,
     ns |-> None, current |-> None, writes |-> 0, written |-> None,
     leaderAtWrite |-> FALSE, rejection |-> None, cause |-> None, result |-> Running]

NoPrev == [result |-> Running, writes |-> 0, clean |-> FALSE]

Return(p, result) == [p EXCEPT !.pc = "done", !.result = result]

\* a leadership check that lets every replica through
IsLeaderForAnyone(r) == TRUE

\* ac.IsLeaderFor(ac.key) on replica r
IsLeaderFor(r) == leader[r]

\* the record of a call that begins on replica r; leaderAtCheck is the
\* leadership the replica holds at that moment
Began(r) == [IdlePass EXCEPT !.leaderAtCheck = leader[r]]

\* Reconcile, lines 119-124: a call begins on replica r with the leadership
\* check
StartPass(r) ==
    /\ pass[r].pc \in {"idle", "done"}
    /\ prev' = [prev EXCEPT ![r] =
                    IF pass[r].pc = "idle" THEN NoPrev
                    ELSE [result |-> pass[r].result, writes |-> pass[r].writes,
                          clean |-> ~dirty[r]]]
    /\ dirty' = [dirty EXCEPT ![r] = FALSE]
    /\ pass' = [pass EXCEPT ![r] =
                    IF ~IsLeaderFor(r)
                    THEN Return(Began(r), Skip)
                    ELSE [Began(r) EXCEPT !.pc = "secret"]]
    /\ UNCHANGED <<leader, secret, nsUID, store, events>>
    /\ UNCHANGED admVars

\* a call of Reconcile on replica r, whoever makes it
LeaderCheck(r) ==
    /\ passes < MaxPasses
    /\ passes' = passes + 1
    /\ StartPass(r)

\* a work queue that forgets a key whose pass failed
QueuedNoRetry(r) ==
    \/ pass[r].pc = "idle"
    \/ dirty[r]
    \/ pass[r].pc = "done" /\ pass[r].result = Ok /\ pass[r].writes = 1

\* the key is in the work queue of replica r: the informers list what exists
\* when the controller starts, a change of the Registration or of the secret
\* since the last pass began was notified, the last pass wrote the
\* Registration itself, or the last pass returned an error and the queue
\* retries it
Queued(r) ==
    \/ pass[r].pc = "idle"
    \/ dirty[r]
    \/ pass[r].pc = "done" /\ pass[r].result = Ok /\ pass[r].writes = 1
    \/ pass[r].pc = "done" /\ pass[r].result \notin {Ok, Skip}

\* the controller takes the key from the queue and calls Reconcile
Dequeue(r) ==
    /\ Queued(r)
    /\ StartPass(r)
    /\ UNCHANGED passes

\* a lookup that ignores the ok of the map read and goes on with the zero value
SecretOutcomeNoKeyCheck(s) ==
    IF s = None THEN [result |-> ErrSecret, caCert |-> None]
    ELSE IF s[1].caCert = None THEN [result |-> Running, caCert |-> Some("")]
    ELSE [result |-> Running, caCert |-> s[1].caCert]

\* Reconcile, lines 126-135: what the secret lookup gives
SecretOutcome(s) ==
    IF s = None THEN [result |-> ErrSecret, caCert |-> None]
    ELSE IF s[1].caCert = None THEN [result |-> ErrMissingCA, caCert |-> None]
    ELSE [result |-> Running, caCert |-> s[1].caCert]

GetSecret(r) ==
    /\ pass[r].pc = "secret"
    /\ LET o == SecretOutcome(secret) IN
        pass' = [pass EXCEPT ![r] =
                    IF o.result # Running THEN Return(@, o.result)
                    ELSE [@ EXCEPT !.pc = "webhook", !.caCert = o.caCert]]
    /\ UNCHANGED <<leader, secret, nsUID, store, prev, dirty, passes, events>>
    /\ UNCHANGED admVars

\* reconcileMutatingWebhook, lines 154-159: ac.mwhlister.Get
GetWebhook(r) ==
    /\ pass[r].pc = "webhook"
    /\ pass' = [pass EXCEPT ![r] =
                    IF store = None THEN Return(@, ErrGetWebhook)
                    ELSE [@ EXCEPT !.pc = "namespace", !.configuredWebhook = store]]
    /\ UNCHANGED <<leader, secret, nsUID, store, prev, dirty, passes, events>>
    /\ UNCHANGED admVars

\* reconcileMutatingWebhook, lines 161-204 without the Update call: what the
\* pass decides once the namespace is fetched
Decide(p, ns) ==
    LET configuredWebhook == p.configuredWebhook[1]
        current == BuildCurrent(configuredWebhook, ns, p.caCert[1], WebhookPath)
    IN  IF MissingService(configuredWebhook)
        THEN Return([p EXCEPT !.ns = Some(ns)], ErrMissingService)
        ELSE IF SafeEqual(configuredWebhook, current)
        THEN Return([p EXCEPT !.ns = Some(ns), !.current = Some(current)], Ok)
        ELSE [p EXCEPT !.ns = Some(ns), !.current = Some(current), !.pc = "update"]

\* reconcileMutatingWebhook, lines 161-196: the namespace read, which may fail
GetNamespace(r) ==
    /\ pass[r].pc = "namespace"
    /\ \E fetched \in BOOLEAN :
        pass' = [pass EXCEPT ![r] =
                    IF ~fetched THEN Return(@, ErrGetNamespace)
                    ELSE Decide(@, Namespace(nsUID))]
    /\ UNCHANGED <<leader, secret, nsUID, store, prev, dirty, passes, events>>
    /\ UNCHANGED admVars

\* the errors with which the store may reject a replace
StoreErrors == {"conflict", "forbidden"}
UpdateAnswers == {None} \cup {Some(e) : e \in StoreErrors}

\* a return that reports a failed replace without its cause
UpdateReturnOpaque(p, err) ==
    IF err = None THEN Return(p, Ok) ELSE Return(p, ErrUpdate)

\* reconcileMutatingWebhook, lines 199-205: what is returned after Update
\* answered err; %w keeps err as the cause of the returned error
UpdateReturn(p, err) ==
    IF err = None THEN Return(p, Ok)
    ELSE Return([p EXCEPT !.cause = err], ErrUpdate)

\* reconcileMutatingWebhook, lines 197-201: mwhclient.Update, which may fail;
\* rejection records what the store answered
Update(r) ==
    /\ pass[r].pc = "update"
    /\ \E err \in UpdateAnswers :
        /\ pass' = [pass EXCEPT ![r] =
                        UpdateReturn([@ EXCEPT !.writes = @ + 1,
                                               !.written = pass[r].current,
                                               !.leaderAtWrite = leader[r],
                                               !.rejection = err],
                                     err)]
        /\ store' = IF err = None THEN pass[r].current ELSE store
        /\ dirty' = IF err = None
                    THEN [q \in Replicas |-> IF q = r THEN dirty[q] ELSE TRUE]
                    ELSE dirty
    /\ UNCHANGED <<leader, secret, nsUID, prev, passes, events>>
    /\ UNCHANGED admVars

----------------------------------------------------------------------------
(* The cluster around the reconciler *)

Changed == [q \in Replicas |-> TRUE]

\* the certificate bundle is rotated, emptied, deleted or created
RotateCertificate ==
    /\ events < MaxEvents
    /\ events' = events + 1
    /\ \E s \in SecretStates \ {secret} : secret' = s
    /\ dirty' = Changed
    /\ UNCHANGED <<leader, nsUID, store, pass, prev, passes>>
    /\ UNCHANGED admVars

\* the Registration is edited, deleted or installed out of band
ExternalEdit ==
    /\ events < MaxEvents
    /\ events' = events + 1
    /\ \E s \in StoreStates \ {store} : store' = s
    /\ dirty' = Changed
    /\ UNCHANGED <<leader, secret, nsUID, pass, prev, passes>>
    /\ UNCHANGED admVars

\* the system namespace is deleted and created again
RecreateNamespace ==
    /\ events < MaxEvents
    /\ events' = events + 1
    /\ \E u \in NamespaceUIDs \ {nsUID} : nsUID' = u
    /\ dirty' = Changed
    /\ UNCHANGED <<leader, secret, store, pass, prev, passes>>
    /\ UNCHANGED admVars

\* leader election gives the lease to a replica when no replica holds it
Promote(r) ==
    /\ events < MaxEvents
    /\ events' = events + 1
    /\ \A q \in Replicas : ~leader[q]
    /\ leader' = [leader EXCEPT ![r] = TRUE]
    /\ UNCHANGED <<secret, nsUID, store, pass, prev, dirty, passes>>
    /\ UNCHANGED admVars

\* the replica loses the lease
Demote(r) ==
    /\ events < MaxEvents
    /\ events' = events + 1
    /\ leader[r]
    /\ leader' = [leader EXCEPT ![r] = FALSE]
    /\ UNCHANGED <<secret, nsUID, store, pass, prev, dirty, passes>>
    /\ UNCHANGED admVars

----------------------------------------------------------------------------
(* Pods and their JSON encoding *)

PipelineRunLabel == "tekton.dev/pipelineRun"
QuanTestLabel == "QuanTest"
\* workspace.AnnotationAffinityAssistantName
AnnotationAffinityAssistantName == "pipeline.tekton.dev/affinity-assistant"
\* workspace.LabelInstance
LabelInstance == "app.kubernetes.io/instance"
HostnameTopologyKey == "kubernetes.io/hostname"

WorkflowIDs == {"wf-1", "wf-2"}

\* fmt.Sprintf("%x", sha256.Sum256([]byte(pipelineRunName))) for the
\* identifiers in use
Sha256Hex(w) ==
    CASE w = "wf-1" -> "b3dcb3863c91be2a467c4779f4a34482493c166c4fad85f79ed19e51e31ee34c"
      [] w = "wf-2" -> "109303069d28412a55ec3225282fc740d553f43876995a8dd5f188fb5455ba42"

\* the length of hashString[:10]
HashPrefixLen == 10

\* a derivation that cuts the hash after eight characters
GetPodAffinityValueShort(pipelineRunName) ==
    "custom-pod-affinity" \o "-" \o SubSeq(Sha256Hex(pipelineRunName), 1, 8)

\* getPodAffinityValue
GetPodAffinityValue(pipelineRunName) ==
    "custom-pod-affinity" \o "-" \o SubSeq(Sha256Hex(pipelineRunName), 1, HashPrefixLen)

\* podAffinityTermUsingAffinityAssistant
PodAffinityTermUsingAffinityAssistant(affinityAssistantName) ==
    [matchLabels |-> [k \in {LabelInstance} |-> affinityAssistantName],
     topologyKey |-> HostnameTopologyKey]

\* &corev1.Affinity{} and &corev1.PodAffinity{}
EmptyAffinity == [nodeAffinity |-> None, podAffinity |-> None]
EmptyPodAffinity == [required |-> <<>>]

\* a merge that appends the term only when no equal term is there yet
MergeAffinityWithAffinityAssistantOnce(affinity, podAffinityName) ==
    LET podAffinityTerm == PodAffinityTermUsingAffinityAssistant(podAffinityName)
        podAffinity == IF affinity.podAffinity = None THEN EmptyPodAffinity
                       ELSE affinity.podAffinity[1]
    IN  [affinity EXCEPT !.podAffinity =
            Some([podAffinity EXCEPT !.required =
                    IF \E i \in DOMAIN @ : @[i] = podAffinityTerm THEN @
                    ELSE Append(@, podAffinityTerm)])]

\* mergeAffinityWithAffinityAssistant
MergeAffinityWithAffinityAssistant(affinity, podAffinityName) ==
    LET podAffinityTerm == PodAffinityTermUsingAffinityAssistant(podAffinityName)
        podAffinity == IF affinity.podAffinity = None THEN EmptyPodAffinity
                       ELSE affinity.podAffinity[1]
    IN  [affinity EXCEPT !.podAffinity =
            Some([podAffinity EXCEPT !.required = Append(@, podAffinityTerm)])]

\* a mutation that uses the name of the pipeline run as it is, unhashed
MutatePodAffinityUnhashed(p, pipelineRunName) ==
    IF AnnotationAffinityAssistantName \in DOMAIN p.annotations
    THEN p
    ELSE [p EXCEPT !.affinity =
            Some(MergeAffinityWithAffinityAssistant(
                    IF p.affinity = None THEN EmptyAffinity ELSE p.affinity[1],
                    pipelineRunName))]

\* mutatePodAffinity
MutatePodAffinity(p, pipelineRunName) ==
    IF AnnotationAffinityAssistantName \in DOMAIN p.annotations
    THEN p
    ELSE [p EXCEPT !.affinity =
            Some(MergeAffinityWithAffinityAssistant(
                    IF p.affinity = None THEN EmptyAffinity ELSE p.affinity[1],
                    GetPodAffinityValue(pipelineRunName)))]

\* var pod corev1.Pod
ZeroPod == [labels |-> <<>>, annotations |-> <<>>, affinity |-> None, containers |-> ""]

OtherTerm ==
    [matchLabels |-> [k \in {"app"} |-> "db"], topologyKey |-> "topology.kubernetes.io/zone"]

PodLabels ==
    { l \in UNION {[D -> WorkflowIDs \cup {"hello1", "bye"}] :
                        D \in SUBSET {PipelineRunLabel, QuanTestLabel}} :
        /\ PipelineRunLabel \in DOMAIN l => l[PipelineRunLabel] \in WorkflowIDs
        /\ QuanTestLabel \in DOMAIN l => l[QuanTestLabel] \in {"hello1", "bye"} }

PodAnnotations ==
    { <<>>, [k \in {AnnotationAffinityAssistantName} |-> "affinity-assistant-0"] }

PodAffinities ==
    { None,
      Some(EmptyAffinity),
      Some([nodeAffinity |-> Some("zone-a"), podAffinity |-> None]),
      Some([nodeAffinity |-> None, podAffinity |-> Some([required |-> <<OtherTerm>>])]),
      Some([nodeAffinity |-> None,
            podAffinity |-> Some([required |->
                <<PodAffinityTermUsingAffinityAssistant(GetPodAffinityValue("wf-1"))>>])]) }

\* the pods a creation request may carry
Pods ==
    { [labels |-> l, annotations |-> a, affinity |-> f, containers |-> "step"] :
        l \in PodLabels, a \in PodAnnotations, f \in PodAffinities }

\* request.Object.Raw: the JSON of a pod, or bytes that do not decode
AdmissionRequests ==
    {[raw |-> "pod", object |-> p] : p \in Pods} \cup {[raw |-> "garbage", object |-> ZeroPod]}

\* JSON values, as encoding/json and jsonpatch see them
JNull == [t |-> "null", v |-> ""]
JStr(x) == [t |-> "str", v |-> x]
JObj(f) == [t |-> "obj", v |-> f]
JArr(q) == [t |-> "arr", v |-> q]

\* f restricted to the keys of D
Restrict(f, D) == [k \in D |-> f[k]]

JStrMap(m) == JObj([k \in DOMAIN m |-> JStr(m[k])])

TermJSON(term) ==
    JObj([k \in {"labelSelector", "topologyKey"} |->
            IF k = "labelSelector"
            THEN JObj([j \in {"matchLabels"} |-> JStrMap(term.matchLabels)])
            ELSE JStr(term.topologyKey)])

\* omitempty drops a nil pointer and an empty slice
PodAffinityJSON(pa) ==
    LET all == [k \in {"requiredDuringSchedulingIgnoredDuringExecution"} |->
                    JArr([i \in DOMAIN pa.required |-> TermJSON(pa.required[i])])]
    IN  JObj(Restrict(all, {k \in DOMAIN all : Len(pa.required) > 0}))

AffinityJSON(a) ==
    LET all == [k \in {"nodeAffinity", "podAffinity"} |->
                    IF k = "nodeAffinity"
                    THEN (IF a.nodeAffinity = None THEN JNull ELSE JStr(a.nodeAffinity[1]))
                    ELSE (IF a.podAffinity = None THEN JNull
                          ELSE PodAffinityJSON(a.podAffinity[1]))]
    IN  JObj(Restrict(all, {k \in DOMAIN all :
                \/ k = "nodeAffinity" /\ a.nodeAffinity # None
                \/ k = "podAffinity" /\ a.podAffinity # None}))

\* json.NewEncoder(...).Encode(pod): omitempty drops empty maps and nil pointers
PodJSON(p) ==
    LET meta == [k \in {"creationTimestamp", "labels", "annotations"} |->
                    CASE k = "labels" -> JStrMap(p.labels)
                      [] k = "annotations" -> JStrMap(p.annotations)
                      [] OTHER -> JNull]
        spec == [k \in {"containers", "affinity"} |->
                    IF k = "containers" THEN JStr(p.containers)
                    ELSE (IF p.affinity = None THEN JNull ELSE AffinityJSON(p.affinity[1]))]
        all == [k \in {"metadata", "spec", "status"} |->
                    CASE k = "metadata" ->
                            JObj(Restrict(meta, {j \in DOMAIN meta :
                                \/ j = "creationTimestamp"
                                \/ j = "labels" /\ DOMAIN p.labels # {}
                                \/ j = "annotations" /\ DOMAIN p.annotations # {}}))
                      [] k = "spec" ->
                            JObj(Restrict(spec, {j \in DOMAIN spec :
                                j = "containers" \/ p.affinity # None}))
                      [] OTHER -> JObj(<<>>)]
    IN  JObj(all)

----------------------------------------------------------------------------
(* jsonpatch.CreatePatch *)

\* the keys of the documents, in the two orders in which the diff may visit
\* the members of an object (Go map iteration order is not fixed)
KeyOrder ==
    << "metadata", "spec", "status", "creationTimestamp", "labels", "annotations",
       "containers", "affinity", "nodeAffinity", "podAffinity",
       "requiredDuringSchedulingIgnoredDuringExecution", "labelSelector", "topologyKey",
       "matchLabels", PipelineRunLabel, QuanTestLabel, LabelInstance, "app",
       AnnotationAffinityAssistantName >>
Reverse(q) == [i \in DOMAIN q |-> q[Len(q) + 1 - i]]
KeyOrders == {KeyOrder, Reverse(KeyOrder)}

\* the RFC 6901 escaping of a key in a path: "/" becomes "~1"
EscapeKey(k) ==
    CASE k = PipelineRunLabel -> "tekton.dev~1pipelineRun"
      [] k = LabelInstance -> "app.kubernetes.io~1instance"
      [] k = AnnotationAffinityAssistantName -> "pipeline.tekton.dev~1affinity-assistant"
      [] OTHER -> k

\* the decimal form of an array index
IndexName(i) == <<"0", "1", "2", "3", "4", "5", "6", "7">>[i + 1]

Operation(op, path, value) == [op |-> op, path |-> path, value |-> value]

Min(a, b) == IF a < b THEN a ELSE b

RECURSIVE HandleValues(_, _, _, _)
RECURSIVE DiffMembers(_, _, _, _, _)
RECURSIVE DiffElements(_, _, _, _, _)

\* jsonpatch diff, first loop: the members of b, added or compared
DiffMembers(a, b, p, ord, keys) ==
    IF keys = <<>> THEN <<>>
    ELSE LET key == Head(keys)
             path == Append(p, EscapeKey(key))
         IN  (IF key \notin DOMAIN a
              THEN <<Operation("add", path, b[key])>>
              ELSE HandleValues(a[key], b[key], path, ord))
             \o DiffMembers(a, b, p, ord, Tail(keys))

\* jsonpatch handleValues, the elements two arrays share
DiffElements(at, bt, p, ord, i) ==
    IF i > Min(Len(at), Len(bt)) THEN <<>>
    ELSE HandleValues(at[i], bt[i], Append(p, IndexName(i - 1)), ord)
         \o DiffElements(at, bt, p, ord, i + 1)

\* jsonpatch handleValues
HandleValues(av, bv, p, ord) ==
    IF av.t # bv.t THEN <<Operation("replace", p, bv)>>
    ELSE CASE av.t = "obj" ->
                LET a == av.v
                    b == bv.v
                    removed == SelectSeq(ord, LAMBDA k : k \in DOMAIN a \ DOMAIN b)
                IN  DiffMembers(a, b, p, ord, SelectSeq(ord, LAMBDA k : k \in DOMAIN b))
                    \o [i \in DOMAIN removed |->
                            Operation("remove", Append(p, EscapeKey(removed[i])), JNull)]
           [] av.t = "str" ->
                IF av.v = bv.v THEN <<>> ELSE <<Operation("replace", p, bv)>>
           [] av.t = "arr" ->
                LET at == av.v
                    bt == bv.v
                    n == Min(Len(at), Len(bt))
                IN  [j \in 1..(Len(at) - n) |->
                        Operation("remove", Append(p, IndexName(Len(at) - j)), JNull)]
                    \o [j \in 1..(Len(bt) - n) |->
                        Operation("add", Append(p, IndexName(n + j - 1)), bt[n + j])]
                    \o DiffElements(at, bt, p, ord, 1)
           [] OTHER -> <<>>

\* a patch generator that hands the two documents to the diff the other way round
GenerateJsonPatchSwapped(origin, target, ord) ==
    HandleValues(PodJSON(target), PodJSON(origin), <<>>, ord)

\* generateJsonPatch: the operations from origin to target
GenerateJsonPatch(origin, target, ord) ==
    HandleValues(PodJSON(origin), PodJSON(target), <<>>, ord)

----------------------------------------------------------------------------
(* Admit *)

PatchTypeJSONPatch == "JSONPatch"

\* codecs.UniversalDeserializer().Decode into pod, its error dropped: bytes
\* that do not decode leave the zero pod
Decode(request) == IF request.raw = "pod" THEN request.object ELSE ZeroPod

\* pod.Labels["QuanTest"] = "hello1", on a map made when nil
SetQuanTestLabel(p) ==
    [p EXCEPT !.labels = [k \in DOMAIN p.labels \cup {QuanTestLabel} |->
                            IF k = QuanTestLabel THEN "hello1" ELSE p.labels[k]]]

\* an Admit that leaves the patch type of the response unset
AdmitOutcomeUntagged(request, ord) ==
    LET pod == Decode(request)
        mutated == IF PipelineRunLabel \in DOMAIN pod.labels
                   THEN MutatePodAffinity(pod, pod.labels[PipelineRunLabel])
                   ELSE pod
        target == SetQuanTestLabel(mutated)
    IN  [origin |-> pod,
         target |-> target,
         response |-> [allowed |-> TRUE,
                       patch |-> GenerateJsonPatch(pod, target, ord),
                       patchType |-> None,
                       result |-> None]]

\* Admit: origin is cpPod, target is pod as handed to generateJsonPatch
AdmitOutcome(request, ord) ==
    LET pod == Decode(request)
        cpPod == pod
        mutated == IF PipelineRunLabel \in DOMAIN pod.labels
                   THEN MutatePodAffinity(pod, pod.labels[PipelineRunLabel])
                   ELSE pod
        target == SetQuanTestLabel(mutated)
    IN  [origin |-> cpPod,
         target |-> target,
         response |-> [allowed |-> TRUE,
                       patch |-> GenerateJsonPatch(cpPod, target, ord),
                       patchType |-> Some(PatchTypeJSONPatch),
                       result |-> None]]

\* one call of Admit
Admit ==
    /\ admResult = None
    /\ \E ord \in KeyOrders : admResult' = Some(AdmitOutcome(admRequest, ord))
    /\ UNCHANGED <<admRequest, admissions>>
    /\ UNCHANGED recVars

\* the pod is admitted again after the patch of the response was applied to it
\* (the Registration asks for ReinvocationPolicy IfNeeded)
Reinvoke ==
    /\ admResult # None
    /\ admRequest.raw = "pod"
    /\ admissions < MaxAdmissions
    /\ admissions' = admissions + 1
    /\ admRequest' = [raw |-> "pod", object |-> admResult[1].target]
    /\ admResult' = None
    /\ UNCHANGED recVars

\* the next creation request arrives
NextRequest ==
    /\ admResult # None
    /\ admissions < MaxAdmissions
    /\ admissions' = admissions + 1
    /\ \E request \in AdmissionRequests : admRequest' = request
    /\ admResult' = None
    /\ UNCHANGED recVars

----------------------------------------------------------------------------

Init ==
    /\ leader \in {[r \in Replicas |-> r = l] : l \in {"r1", "nobody"}}
    /\ secret \in {Some([caCert |-> None]), Some([caCert |-> Some("ca1")])}
    /\ nsUID = "u1"
    /\ store \in StoreStates
    /\ pass = [r \in Replicas |-> IdlePass]
    /\ prev = [r \in Replicas |-> NoPrev]
    /\ dirty = [r \in Replicas |-> FALSE]
    /\ passes = 0
    /\ events = 0
    /\ admRequest = [raw |-> "pod", object |-> ZeroPod]
    /\ admResult = None
    /\ admissions = 0

Next ==
    \/ \E r \in Replicas : LeaderCheck(r)
    \/ \E r \in Replicas : GetSecret(r)
    \/ \E r \in Replicas : GetWebhook(r)
    \/ \E r \in Replicas : GetNamespace(r)
    \/ \E r \in Replicas : Update(r)
    \/ RotateCertificate
    \/ ExternalEdit
    \/ RecreateNamespace
    \/ \E r \in Replicas : Promote(r)
    \/ \E r \in Replicas : Demote(r)

Spec == Init /\ [][Next]_vars

\* the controller of the replica that holds the lease for good: passes are
\* made for queued keys only, and the namespace stays; the passes of the
\* other replicas only skip and are left out
StableLeader == "r1"

LiveInit ==
    /\ Init
    /\ leader[StableLeader]

LiveNext ==
    \/ Dequeue(StableLeader)
    \/ GetSecret(StableLeader)
    \/ GetWebhook(StableLeader)
    \/ GetNamespace(StableLeader)
    \/ Update(StableLeader)
    \/ RotateCertificate
    \/ ExternalEdit

\* the namespace read and the replace do not fail for ever
NamespaceFetched(r) == GetNamespace(r) /\ pass'[r].result # ErrGetNamespace
UpdateAccepted(r) == Update(r) /\ pass'[r].rejection = None

\* every queued key is processed and every call runs to its return
LiveFairness ==
    /\ WF_vars(Dequeue(StableLeader))
    /\ WF_vars(GetSecret(StableLeader))
    /\ WF_vars(GetWebhook(StableLeader))
    /\ WF_vars(GetNamespace(StableLeader))
    /\ WF_vars(Update(StableLeader))
    /\ SF_vars(NamespaceFetched(StableLeader))
    /\ SF_vars(UpdateAccepted(StableLeader))

LiveSpec == LiveInit /\ [][LiveNext]_vars /\ LiveFairness

\* the admission path alone: the two paths share no state
AdmitInit ==
    /\ leader = [r \in Replicas |-> FALSE]
    /\ secret = None
    /\ nsUID = "u1"
    /\ store = None
    /\ pass = [r \in Replicas |-> IdlePass]
    /\ prev = [r \in Replicas |-> NoPrev]
    /\ dirty = [r \in Replicas |-> FALSE]
    /\ passes = 0
    /\ events = 0
    /\ admRequest \in AdmissionRequests
    /\ admResult = None
    /\ admissions = 1

AdmitNext == Admit \/ NextRequest \/ Reinvoke

AdmitSpec == AdmitInit /\ [][AdmitNext]_vars

----------------------------------------------------------------------------
(* Properties of Reconcile *)

Returned(r) == pass[r].pc = "done"

\* the entries of doc that the loop of reconcileMutatingWebhook rewrites
Targeted(doc) == {i \in DOMAIN doc.webhooks : doc.webhooks[i].name = doc.name}

\* C1: a Reconcile call on a replica that does not hold leadership returns the
\* skip signal and issues no write, whatever the secret and the Registration are.
NonLeaderSkips ==
    \A r \in Replicas :
        (pass[r].pc # "idle" /\ ~pass[r].leaderAtCheck) =>
            /\ Returned(r)
            /\ pass[r].result = Skip
            /\ pass[r].writes = 0
            /\ pass[r].written = None

NonLeaderSkipsWitness ==
    \E r \in Replicas :
        /\ Returned(r) /\ ~pass[r].leaderAtCheck /\ pass[r].result = Skip
        /\ store = Some(Registration(Owner, <<ConvergedEntry("ca0")>>))
        /\ secret = Some([caCert |-> Some("ca1")])

\* a pair of consecutive calls of replica r, both as leader, with no change of
\* the secret, the namespace or the Registration by anyone else from the start
\* of the first call to the return of the second
QuietPair(r) ==
    /\ Returned(r)
    /\ pass[r].leaderAtCheck
    /\ prev[r].result \notin {Running, Skip}
    /\ prev[r].clean
    /\ ~dirty[r]

WriteOnlyOnDifference ==
    \A r \in Replicas :
        /\ pass[r].writes <= 1
        /\ pass[r].writes = 1 =>
                /\ pass[r].current # None
                /\ pass[r].current # pass[r].configuredWebhook
                /\ pass[r].written = pass[r].current
        /\ (Returned(r) /\ pass[r].current # None
              /\ pass[r].current = pass[r].configuredWebhook) =>
                /\ pass[r].writes = 0
                /\ pass[r].result = Ok

WriteOnlyOnDifferenceWitness ==
    \E r \in Replicas :
        /\ Returned(r) /\ pass[r].leaderAtCheck
        /\ pass[r].current # None
        /\ pass[r].current = pass[r].configuredWebhook
        /\ pass[r].writes = 0 /\ pass[r].result = Ok

\* C4 as stated: whenever a write is issued, the writing replica holds
\* leadership at that moment.
WriterHoldsLeadership ==
    \A r \in Replicas : pass[r].writes > 0 => pass[r].leaderAtWrite

\* C4 amended: whenever a write is issued, the writing replica held leadership
\* when its call checked it at the top of Reconcile.
WriterWasLeaderAtCheck ==
    \A r \in Replicas : pass[r].writes > 0 => pass[r].leaderAtCheck

WriterWasLeaderAtCheckWitness ==
    \E r \in Replicas :
        /\ pass[r].writes = 1 /\ pass[r].result = Ok
        /\ pass[r].leaderAtCheck /\ ~pass[r].leaderAtWrite

\* the observed document is in its desired form but for the CA bundle of a
\* targeted entry, which is not caCert
StaleCAOnly(doc, ns, caCert) ==
    /\ doc.ownerReferences = <<NewControllerRef(ns)>>
    /\ \A i \in Targeted(doc) :
        LET wh == doc.webhooks[i] IN
        /\ wh.rules = PodCreateRules
        /\ wh.namespaceSelector # None
        /\ Len(wh.namespaceSelector[1].matchExpressions) >= 1
        /\ wh.namespaceSelector[1].matchExpressions[1] = ExcludeExpr
        /\ \A j \in 2..Len(wh.namespaceSelector[1].matchExpressions) :
                ~IsKnativeKey(wh.namespaceSelector[1].matchExpressions[j].key)
        /\ wh.service # None
        /\ wh.service[1].path = Some(WebhookPath)
        /\ wh.reinvocationPolicy = Some(IfNeededReinvocationPolicy)
    /\ \E i \in Targeted(doc) : doc.webhooks[i].caBundle # caCert

\* doc with the CA bundle of its targeted entries set to caCert
WithCABundle(doc, caCert) ==
    [doc EXCEPT !.webhooks = [i \in DOMAIN doc.webhooks |->
        IF i \in Targeted(doc) THEN [doc.webhooks[i] EXCEPT !.caBundle = caCert]
        ELSE doc.webhooks[i]]]

\* C5: when the observed Registration has a service on its targeted entry and
\* differs from the desired one by stale CA bytes only, the call issues exactly
\* one write, of the observed document with the CA bundle read in that call.
StaleCAIsRewritten ==
    \A r \in Replicas :
        (/\ Returned(r)
         /\ pass[r].ns # None
         /\ StaleCAOnly(pass[r].configuredWebhook[1], pass[r].ns[1], pass[r].caCert[1])) =>
            /\ pass[r].writes = 1
            /\ pass[r].written =
                    Some(WithCABundle(pass[r].configuredWebhook[1], pass[r].caCert[1]))

StaleCAIsRewrittenWitness ==
    \E r \in Replicas :
        /\ Returned(r) /\ pass[r].ns # None
        /\ StaleCAOnly(pass[r].configuredWebhook[1], pass[r].ns[1], pass[r].caCert[1])
        /\ pass[r].writes = 1 /\ pass[r].result = Ok
        /\ store = pass[r].written

\* C6: a call that builds the desired document from a Registration whose
\* targeted entry has no service returns the missing-service error, issues no
\* write and leaves the stored Registration as it is.
MissingServiceFails ==
    [][\A r \in Replicas :
        (/\ pass[r].pc = "namespace"
         /\ pass'[r].ns # None
         /\ \E i \in Targeted(pass[r].configuredWebhook[1]) :
                pass[r].configuredWebhook[1].webhooks[i].service = None) =>
            /\ pass'[r].pc = "done"
            /\ pass'[r].result = ErrMissingService
            /\ pass'[r].writes = 0
            /\ pass'[r].written = None
            /\ store' = store]_vars

MissingServiceFailsWitness ==
    \E r \in Replicas :
        /\ Returned(r) /\ pass[r].result = ErrMissingService
        /\ pass[r].writes = 0
        /\ store = pass[r].configuredWebhook

\* C7: a leader call that finds the secret without the CA key returns the
\* missing-key error, issues no write and leaves the stored Registration as it
\* is; the call after it, finding the key, goes on with the CA bytes of the key.
MissingCAFailsAndRecovers ==
    [][\A r \in Replicas :
        (pass[r].pc = "secret" /\ pass'[r].pc # "secret") =>
            /\ (secret # None /\ secret[1].caCert = None) =>
                    /\ pass'[r].pc = "done"
                    /\ pass'[r].result = ErrMissingCA
                    /\ pass'[r].writes = 0
                    /\ pass'[r].written = None
                    /\ store' = store
            /\ (prev[r].result = ErrMissingCA /\ secret # None /\ secret[1].caCert # None) =>
                    /\ pass'[r].pc = "webhook"
                    /\ pass'[r].caCert = secret[1].caCert]_vars

MissingCAFailsAndRecoversWitness ==
    \E r \in Replicas :
        /\ prev[r].result = ErrMissingCA /\ prev[r].writes = 0
        /\ Returned(r) /\ pass[r].result = Ok /\ pass[r].writes = 1
        /\ store = pass[r].written
        /\ \E i \in Targeted(store[1]) : Some(store[1].webhooks[i].caBundle) = pass[r].caCert

----------------------------------------------------------------------------
(* Properties of Admit *)

Answered == admResult # None
WellFormed == admRequest.raw = "pod"
Marked == AnnotationAffinityAssistantName \in DOMAIN admRequest.object.annotations
Labelled == PipelineRunLabel \in DOMAIN admRequest.object.labels

\* C8: for a request whose object carries the affinity-assistant marker
\* annotation, with or without the pipeline-run label, the target equals the
\* origin, the patch of the response is empty and the decision is allow.
MarkedPodIsNotMutated ==
    (Answered /\ WellFormed /\ Marked) =>
        /\ admResult[1].target = admResult[1].origin
        /\ admResult[1].response.patch = <<>>
        /\ admResult[1].response.allowed

\* Derive(w): the prefix custom-pod-affinity- and the first ten hex characters
\* of the SHA-256 of w
DerivedToken(w) ==
    CASE w = "wf-1" -> "custom-pod-affinity-b3dcb3863c"
      [] w = "wf-2" -> "custom-pod-affinity-109303069d"

\* the JSON of scheduling constraints that hold one required co-location rule
\* on the host name for token
OneRuleAffinityJSON(token) ==
    JObj([a \in {"podAffinity"} |->
        JObj([b \in {"requiredDuringSchedulingIgnoredDuringExecution"} |->
            JArr(<< JObj([c \in {"labelSelector", "topologyKey"} |->
                IF c = "topologyKey" THEN JStr("kubernetes.io/hostname")
                ELSE JObj([d \in {"matchLabels"} |->
                        JObj([e \in {"app.kubernetes.io/instance"} |-> JStr(token)])])]) >>)])])

\* C9: for a request whose object carries the pipeline-run label with value w,
\* no affinity and no marker annotation, the affinity of the target holds
\* exactly one required pod-affinity term, on the host name and matching
\* Derive(w), and the patch adds the affinity field.
LabelledPodGetsOneRule ==
    (Answered /\ WellFormed /\ Labelled /\ ~Marked /\ admRequest.object.affinity = None) =>
        LET w == admRequest.object.labels[PipelineRunLabel]
            target == admResult[1].target
            patch == admResult[1].response.patch
        IN  /\ target.affinity # None
            /\ target.affinity[1].podAffinity # None
            /\ target.affinity[1].podAffinity[1].required =
                    << [matchLabels |-> [k \in {"app.kubernetes.io/instance"} |->
                                            DerivedToken(w)],
                        topologyKey |-> "kubernetes.io/hostname"] >>
            /\ \E i \in DOMAIN patch :
                    patch[i] = [op |-> "add", path |-> <<"spec", "affinity">>,
                                value |-> OneRuleAffinityJSON(DerivedToken(w))]

LabelledPodGetsOneRuleWitness ==
    /\ Answered /\ WellFormed /\ Labelled /\ ~Marked
    /\ admRequest.object.affinity = None
    /\ admRequest.object.labels[PipelineRunLabel] = "wf-1"
    /\ \E i \in DOMAIN admResult[1].response.patch :
            /\ admResult[1].response.patch[i].op = "add"
            /\ admResult[1].response.patch[i].path = <<"spec", "affinity">>

\* C10: a request whose payload does not decode is answered with a deny
\* response that carries a reason.
UndecodableRequestIsDenied ==
    (Answered /\ ~WellFormed) =>
        /\ ~admResult[1].response.allowed
        /\ admResult[1].response.result # None

\* C11: every request gets a response (Admit can always answer a request that
\* waits), every well-formed request is allowed with the JSON Patch type tag,
\* and a denial is given to malformed input only.
AlwaysAnswersAndAllows ==
    /\ ~Answered => ENABLED Admit
    /\ (Answered /\ WellFormed) =>
            /\ admResult[1].response.allowed
            /\ admResult[1].response.patchType = Some("JSONPatch")
    /\ (Answered /\ ~admResult[1].response.allowed) => ~WellFormed

AlwaysAnswersAndAllowsWitness ==
    /\ Answered /\ WellFormed /\ Labelled /\ ~Marked
    /\ admResult[1].response.allowed
    /\ admResult[1].response.patchType = Some("JSONPatch")
    /\ admResult[1].response.patch # <<>>

\* C12: only the affinity merge changes the object: for a request without the
\* pipeline-run label the target equals the origin and the patch is empty, and
\* for a labelled, unmarked object every operation of the patch lies under
\* /spec/affinity.
OnlyAffinityIsChanged ==
    /\ (Answered /\ WellFormed /\ ~Labelled) =>
            /\ admResult[1].target = admResult[1].origin
            /\ admResult[1].response.patch = <<>>
    /\ (Answered /\ WellFormed /\ Labelled /\ ~Marked) =>
            \A i \in DOMAIN admResult[1].response.patch :
                LET path == admResult[1].response.patch[i].path IN
                Len(path) >= 2 /\ SubSeq(path, 1, 2) = <<"spec", "affinity">>

\* RFC 6902: the application of a patch to a document
UnescapeKey(segment) ==
    CASE segment = "tekton.dev~1pipelineRun" -> "tekton.dev/pipelineRun"
      [] segment = "app.kubernetes.io~1instance" -> "app.kubernetes.io/instance"
      [] segment = "pipeline.tekton.dev~1affinity-assistant" ->
            "pipeline.tekton.dev/affinity-assistant"
      [] OTHER -> segment

IndexOf(segment) == CHOOSE i \in 0..7 : IndexName(i) = segment

RECURSIVE ApplyOperation(_, _, _, _)
ApplyOperation(doc, op, path, value) ==
    IF doc.t = "obj"
    THEN LET key == UnescapeKey(path[1])
             f == doc.v
         IN  IF Len(path) > 1
             THEN JObj([f EXCEPT ![key] = ApplyOperation(f[key], op, Tail(path), value)])
             ELSE IF op = "remove"
             THEN JObj(Restrict(f, DOMAIN f \ {key}))
             ELSE JObj([k \in DOMAIN f \cup {key} |-> IF k = key THEN value ELSE f[k]])
    ELSE LET i == IndexOf(path[1]) + 1
             q == doc.v
         IN  IF Len(path) > 1
             THEN JArr([q EXCEPT ![i] = ApplyOperation(q[i], op, Tail(path), value)])
             ELSE CASE op = "remove" -> JArr(SubSeq(q, 1, i - 1) \o SubSeq(q, i + 1, Len(q)))
                    [] op = "add" -> JArr(SubSeq(q, 1, i - 1) \o <<value>> \o SubSeq(q, i, Len(q)))
                    [] OTHER -> JArr([q EXCEPT ![i] = value])

RECURSIVE ApplyPatch(_, _)
ApplyPatch(doc, patch) ==
    IF patch = <<>> THEN doc
    ELSE ApplyPatch(ApplyOperation(doc, Head(patch).op, Head(patch).path, Head(patch).value),
                    Tail(patch))

\* C13: the patch of every response, applied to the JSON of the origin, gives
\* the JSON of the target.
PatchRoundTrip ==
    Answered =>
        ApplyPatch(PodJSON(admResult[1].origin), admResult[1].response.patch)
            = PodJSON(admResult[1].target)

PatchRoundTripWitness ==
    /\ Answered /\ WellFormed /\ Labelled /\ ~Marked
    /\ admRequest.object.affinity # None
    /\ admRequest.object.affinity[1].podAffinity # None
    /\ Len(admResult[1].response.patch) >= 2
    /\ \E i \in DOMAIN admResult[1].response.patch :
            admResult[1].response.patch[i].path =
                <<"spec", "affinity", "podAffinity",
                  "requiredDuringSchedulingIgnoredDuringExecution", "1">>

\* the token Admit put into the last required term of the target
TokenInTarget ==
    LET required == admResult[1].target.affinity[1].podAffinity[1].required
    IN  required[Len(required)].matchLabels["app.kubernetes.io/instance"]

\* C14: the token derived for a workflow identifier w is the same in every
\* admission of w, is custom-pod-affinity- followed by exactly the first ten
\* hex characters of the SHA-256 of w, and differs for different identifiers.
DeriveIsFixedFormat ==
    /\ \A w1, w2 \in WorkflowIDs :
            w1 # w2 => GetPodAffinityValue(w1) # GetPodAffinityValue(w2)
    /\ (Answered /\ WellFormed /\ Labelled /\ ~Marked) =>
            LET w == admRequest.object.labels[PipelineRunLabel] IN
            /\ TokenInTarget = DerivedToken(w)
            /\ Len(TokenInTarget) = 30
            /\ SubSeq(TokenInTarget, 1, 20) = "custom-pod-affinity-"
            /\ SubSeq(TokenInTarget, 21, 30) = SubSeq(Sha256Hex(w), 1, 10)

DeriveIsFixedFormatWitness ==
    /\ Answered /\ WellFormed /\ Labelled /\ ~Marked
    /\ admRequest.object.labels[PipelineRunLabel] = "wf-2"
    /\ TokenInTarget = "custom-pod-affinity-109303069d"

\* the required co-location rule for workflow identifier w
RuleFor(w) ==
    [matchLabels |-> [k \in {"app.kubernetes.io/instance"} |-> DerivedToken(w)],
     topologyKey |-> "kubernetes.io/hostname"]

HasRequiredRules(p) == p.affinity # None /\ p.affinity[1].podAffinity # None

\* C19: for a labelled, unmarked object that has required pod-affinity terms,
\* the target holds the same terms in the same order followed by one more
\* term for the workflow, whether or not an equal term is among them; so each
\* re-admission of an admitted object adds one more equal term.
AppendsWithoutLooking ==
    (Answered /\ WellFormed /\ Labelled /\ ~Marked /\ HasRequiredRules(admRequest.object)) =>
        LET before == admRequest.object.affinity[1].podAffinity[1].required
            after == admResult[1].target.affinity[1].podAffinity[1].required
        IN  /\ Len(after) = Len(before) + 1
            /\ SubSeq(after, 1, Len(before)) = before
            /\ after[Len(after)] = RuleFor(admRequest.object.labels[PipelineRunLabel])

\* the object was admitted before (no first request carries a term for wf-2)
\* and now holds the term of its workflow twice
AppendsWithoutLookingWitness ==
    /\ Answered /\ WellFormed /\ Labelled /\ ~Marked
    /\ admRequest.object.labels[PipelineRunLabel] = "wf-2"
    /\ HasRequiredRules(admRequest.object)
    /\ LET after == admResult[1].target.affinity[1].podAffinity[1].required
       IN  /\ Len(after) >= 2
           /\ after[Len(after)] = RuleFor("wf-2")
           /\ after[Len(after) - 1] = RuleFor("wf-2")

\* the expressions of a namespace selector that may be absent
Expressions(selector) == IF selector = None THEN <<>> ELSE selector[1].matchExpressions

Occurrences(seq, e) == Cardinality({j \in DOMAIN seq : seq[j] = e})

\* the passes of replica r that built a document, with the observed and the
\* built expressions of each entry named like the Registration
MergedPairs(r) ==
    IF pass[r].current = None THEN {}
    ELSE { [observed |-> Expressions(pass[r].configuredWebhook[1].webhooks[i].namespaceSelector),
            built |-> Expressions(pass[r].current[1].webhooks[i].namespaceSelector)] :
              i \in Targeted(pass[r].configuredWebhook[1]) }

\* C15 as stated: the built selector contains every expression of the
\* observed selector and exactly one exclude-key-absent expression.
MergeKeepsEveryExpression ==
    \A r \in Replicas : \A m \in MergedPairs(r) :
        /\ \A j \in DOMAIN m.observed : Occurrences(m.built, m.observed[j]) >= 1
        /\ Occurrences(m.built, ExcludeExpr) = 1

\* C15: in every pass, over whatever an earlier pass or an edit left in the
\* store, the built selector of the targeted entry contains every observed
\* expression whose key is not a knative.dev key, and the exclude-key-absent
\* expression exactly once.
MergeKeepsForeignExpressions ==
    \A r \in Replicas : \A m \in MergedPairs(r) :
        /\ \A j \in DOMAIN m.observed :
              ~IsKnativeKey(m.observed[j].key) => Occurrences(m.built, m.observed[j]) >= 1
        /\ Occurrences(m.built, ExcludeExpr) = 1

\* a pass over a selector that a pass before it merged and wrote
MergeKeepsForeignExpressionsWitness ==
    \E r \in Replicas : \E m \in MergedPairs(r) :
        /\ m.observed = <<ExcludeExpr, UserExpr>>
        /\ Occurrences(m.built, ExcludeExpr) = 1
        /\ Occurrences(m.built, UserExpr) = 1

\* C16: a pass in which the store rejected the replace made exactly one write
\* attempt and returns the failed-replace error, which carries what the store
\* answered as its cause; the next pass of the same leader over the same
\* secret, namespace and Registration that gets as far as the comparison
\* makes one write attempt again.
FailedWriteIsReportedAndRetried ==
    \A r \in Replicas :
        /\ (Returned(r) /\ pass[r].rejection # None) =>
                /\ pass[r].result = ErrUpdate
                /\ pass[r].writes = 1
                /\ pass[r].cause = pass[r].rejection
        /\ (Returned(r) /\ pass[r].result = ErrUpdate) => pass[r].rejection # None
        /\ (QuietPair(r) /\ prev[r].result = ErrUpdate /\ pass[r].result # ErrGetNamespace) =>
                /\ pass[r].writes = 1
                /\ pass[r].result \in {Ok, ErrUpdate}

\* the store rejected the replace in one pass and the pass after it wrote
\* the document
FailedWriteIsReportedAndRetriedWitness ==
    \E r \in Replicas :
        /\ QuietPair(r)
        /\ prev[r].result = ErrUpdate
        /\ prev[r].writes = 1
        /\ pass[r].writes = 1
        /\ pass[r].result = Ok
        /\ store = pass[r].written

\* the desired state of a Registration, for the system namespace with uid
\* and the CA bytes ca
DesiredState(doc, uid, ca) ==
    /\ doc.ownerReferences # None
    /\ Len(doc.ownerReferences) = 1
    /\ doc.ownerReferences[1].kind = "Namespace"
    /\ doc.ownerReferences[1].name = SystemNamespace
    /\ doc.ownerReferences[1].uid = uid
    /\ doc.ownerReferences[1].controller
    /\ \A i \in DOMAIN doc.webhooks :
          doc.webhooks[i].name = doc.name =>
              /\ doc.webhooks[i].rules = PodCreateRules
              /\ doc.webhooks[i].caBundle = ca
              /\ doc.webhooks[i].service # None
              /\ doc.webhooks[i].service[1].path = Some(WebhookPath)
              /\ doc.webhooks[i].reinvocationPolicy = Some(IfNeededReinvocationPolicy)

\* a call of replica r has returned nil and nobody else has changed the
\* secret, the namespace or the Registration since it began
SucceededUndisturbed(r) ==
    Returned(r) /\ pass[r].result = Ok /\ ~dirty[r]

\* C17: when a pass has returned nil, and until someone else changes the
\* store again, the stored Registration has the system namespace as its only
\* owner reference and every entry named like the Registration has the
\* pod-creation rules, the CA bytes read in the pass, the configured path
\* and the IfNeeded policy.
SuccessLeavesDesiredState ==
    \A r \in Replicas :
        SucceededUndisturbed(r) =>
            /\ pass[r].leaderAtCheck
            /\ store # None
            /\ DesiredState(store[1], nsUID, pass[r].caCert[1])

\* a pass that had to write a Registration with a targeted entry
SuccessLeavesDesiredStateWitness ==
    \E r \in Replicas :
        /\ SucceededUndisturbed(r)
        /\ pass[r].writes = 1
        /\ pass[r].configuredWebhook[1].ownerReferences = None
        /\ \E i \in DOMAIN store[1].webhooks :
              store[1].webhooks[i].name = store[1].name /\ store[1].webhooks[i].caBundle = "ca1"

\* the fields of a rule entry that the loop body assigns
AssignedFields == {"rules", "namespaceSelector", "caBundle", "service", "reinvocationPolicy"}

\* built differs from observed in nothing but the owner references and the
\* assigned fields of the entries named like the Registration
OnlyTargetedChanged(observed, built) ==
    /\ built.name = observed.name
    /\ DOMAIN built.webhooks = DOMAIN observed.webhooks
    /\ \A i \in DOMAIN observed.webhooks :
          IF observed.webhooks[i].name = observed.name
          THEN \A f \in DOMAIN observed.webhooks[i] \ AssignedFields :
                    built.webhooks[i][f] = observed.webhooks[i][f]
          ELSE built.webhooks[i] = observed.webhooks[i]
    /\ (\A i \in DOMAIN observed.webhooks : observed.webhooks[i].name # observed.name) =>
          [built EXCEPT !.ownerReferences = observed.ownerReferences] = observed

\* C20: the document a pass builds, and the document it writes, differs from
\* the observed one only in the owner reference and in the entries named
\* like the Registration; every other entry is the observed one, and with no
\* entry of that name only the owner reference can differ.
ReconcileTouchesOnlyTargeted ==
    \A r \in Replicas :
        /\ pass[r].current # None =>
              OnlyTargetedChanged(pass[r].configuredWebhook[1], pass[r].current[1])
        /\ pass[r].written # None =>
              /\ pass[r].written = pass[r].current
              /\ OnlyTargetedChanged(pass[r].configuredWebhook[1], pass[r].written[1])

\* a pass wrote a Registration that has another entry and none of its own
\* name, and the store now holds it with the entry as it was
ReconcileTouchesOnlyTargetedWitness ==
    \E r \in Replicas :
        /\ Returned(r)
        /\ pass[r].result = Ok
        /\ pass[r].writes = 1
        /\ store = pass[r].written
        /\ store[1].webhooks = <<OtherEntry>>
        /\ store[1].ownerReferences # pass[r].configuredWebhook[1].ownerReferences

\* the secret carries CA bytes and the Registration exists
HasCurrentCA == secret # None /\ secret[1].caCert # None /\ store # None

\* every entry named like the Registration carries the CA bytes of the secret
CarriesCurrentCA ==
    \A i \in Targeted(store[1]) : store[1].webhooks[i].caBundle = secret[1].caCert[1]

NoWritePending == \A r \in Replicas : pass[r].pc # "update"

\* every entry named like the Registration has a service reference
HasServiceReference ==
    \A i \in Targeted(store[1]) : store[1].webhooks[i].service # None

====
